---- MODULE Spec2Model ----
(***************************************************************************)
(* Model of the SmartThings MCP server (src/smartthings_mcp.py): the       *)
(* SmartThingsClient operations, the handle_call_tool dispatcher and the   *)
(* startup sequence of SmartThingsMCPServer.run.                           *)
(*                                                                         *)
(* Python values are modelled as follows.                                  *)
(*   - scalars taken from the argument mapping are tagged records          *)
(*     (JStr, JInt, JBool, JNull) so that truthiness and str() are         *)
(*     computed the way Python computes them;                              *)
(*   - dicts are TLA+ records / functions, a missing key is a key that is  *)
(*     not in the DOMAIN;  None is the record PyNone;                      *)
(*   - lists are sequences;                                                *)
(*   - a call returns an outcome record: either a value or a raised        *)
(*     exception, together with the HTTP requests and Client operations    *)
(*     it performed.                                                       *)
(***************************************************************************)
EXTENDS Integers, Sequences, FiniteSets, TLC

\* Bound on the number of requests (tool calls / tool listings) handled.
MaxCalls == 2

---------------------------------------------------------------------------
\* Python values

PyNone == [none |-> TRUE]
EmptyObject == [k \in {} |-> ""]

JStr(s) == [t |-> "str", n |-> 0, s |-> s]
JInt(i) == [t |-> "int", n |-> i, s |-> ""]
JBool(b) == [t |-> "bool", n |-> IF b THEN 1 ELSE 0, s |-> ""]
JNull == [t |-> "null", n |-> 0, s |-> ""]

\* bool(v) of a scalar
PyTruthy(v) ==
    CASE v.t = "str" -> v.s # ""
      [] v.t = "int" -> v.n # 0
      [] v.t = "bool" -> v.n = 1
      [] OTHER -> FALSE

\* str(v) / f"{v}" of a scalar
PyStr(v) ==
    CASE v.t = "str" -> v.s
      [] v.t = "int" -> ToString(v.n)
      [] v.t = "bool" -> IF v.n = 1 THEN "True" ELSE "False"
      [] OTHER -> "None"

\* bool(d) of an Optional[Dict]: None and the empty dict are falsy
PyTruthyDict(d) == d # PyNone /\ DOMAIN d # {}

\* d.get(k, default)
DictGet(d, k, default) == IF k \in DOMAIN d THEN d[k] ELSE default

\* Outcomes of a call: a returned value or a raised exception, with the
\* HTTP requests issued and the Client operations invoked on the way.
Return(v, reqs, ops) ==
    [raised |-> FALSE, exc |-> "", value |-> v, reqs |-> reqs, ops |-> ops]
Raise(msg, reqs, ops) ==
    [raised |-> TRUE, exc |-> msg, value |-> PyNone, reqs |-> reqs, ops |-> ops]

---------------------------------------------------------------------------
\* The remote API as seen through one HTTP exchange

OkResponse(body) == [kind |-> "ok", body |-> body]
HttpError == [kind |-> "http_error", body |-> EmptyObject]
TransportError == [kind |-> "transport_error", body |-> EmptyObject]
Failures == {HttpError, TransportError}

\* str(e) of the aiohttp.ClientError raised for a failed exchange
ClientErrorMessage(resp) ==
    IF resp.kind = "http_error" THEN "ClientResponseError" ELSE "ClientConnectorError"

---------------------------------------------------------------------------
\* SmartThingsClient

BaseUrl == [host |-> "api.smartthings.com", path |-> <<"v1">>]

SmartThingsClient(access_token) ==
    [access_token |-> access_token,
     base_url |-> BaseUrl,
     headers |-> [Authorization |-> <<"Bearer ", access_token>>,
                  ContentType |-> "application/json"]]

\* An endpoint is a path reference; every endpoint of the client starts
\* with "/" (absolute |-> TRUE).
Endpoint(segments) == [absolute |-> TRUE, path |-> segments]

\* urllib.parse.urljoin(base, ref) for a path-only reference (RFC 3986 5.2):
\* an absolute-path reference replaces the whole path of the base, a relative
\* one replaces the last segment of the base path.
UrlJoin(base, ref) ==
    IF ref.absolute
    THEN [host |-> base.host, path |-> ref.path]
    ELSE [host |-> base.host,
          path |-> (IF Len(base.path) = 0 THEN <<>>
                    ELSE SubSeq(base.path, 1, Len(base.path) - 1)) \o ref.path]

\* aiohttp.ClientSession(): a fresh transport session
ClientSession == [closed |-> FALSE]

\* Leaving `async with ... as session`, normally or by an exception, closes
\* the session.
AsyncWithExit(session) == [session EXCEPT !.closed = TRUE]

\* _make_request repeating a failed exchange once before raising.
MakeRequestRetriesOnce(self, method, endpoint, data, resp) ==
    LET session == ClientSession
        req == [method |-> method,
                url |-> UrlJoin(self.base_url, endpoint),
                headers |-> self.headers,
                json |-> data,
                session |-> AsyncWithExit(session)]
    IN IF resp.kind = "ok"
       THEN Return(resp.body, <<req>>, <<>>)
       ELSE Raise(ClientErrorMessage(resp), <<req, req>>, <<>>)

\* _make_request: one exchange inside its own session; raise_for_status /
\* transport failures raise.  Each request is recorded with the state in
\* which its session is left.
MakeRequest(self, method, endpoint, data, resp) ==
    LET session == ClientSession
        req == [method |-> method,
                url |-> UrlJoin(self.base_url, endpoint),
                headers |-> self.headers,
                json |-> data,
                session |-> AsyncWithExit(session)]
    IN IF resp.kind = "ok"
       THEN Return(resp.body, <<req>>, <<>>)
       ELSE Raise(ClientErrorMessage(resp), <<req>>, <<>>)

\* The number of requests of reqs whose session was left open.
RECURSIVE LeftOpen(_)
LeftOpen(reqs) ==
    IF reqs = <<>> THEN 0
    ELSE (IF Head(reqs).session.closed THEN 0 ELSE 1) + LeftOpen(Tail(reqs))

ClientOp(op, device_id, commands) ==
    [op |-> op, device_id |-> device_id, commands |-> commands]

\* get_devices with the failure logged and re-raised, as send_device_command
\* does.
get_devices_reraises(self, resp) ==
    LET op == ClientOp("get_devices", JNull, <<>>)
        r == MakeRequest(self, "GET", Endpoint(<<"devices">>), PyNone, resp)
    IN IF r.raised
       THEN Raise(r.exc, r.reqs, <<op>>)
       ELSE Return(DictGet(r.value, "items", <<>>), r.reqs, <<op>>)

\* get_devices: failure absorbed into the empty list
get_devices(self, resp) ==
    LET op == ClientOp("get_devices", JNull, <<>>)
        r == MakeRequest(self, "GET", Endpoint(<<"devices">>), PyNone, resp)
    IN IF r.raised
       THEN Return(<<>>, r.reqs, <<op>>)
       ELSE Return(DictGet(r.value, "items", <<>>), r.reqs, <<op>>)

\* get_device: failure absorbed into None
get_device(self, device_id, resp) ==
    LET op == ClientOp("get_device", device_id, <<>>)
        r == MakeRequest(self, "GET",
                         Endpoint(<<"devices", PyStr(device_id)>>), PyNone, resp)
    IN IF r.raised
       THEN Return(PyNone, r.reqs, <<op>>)
       ELSE Return(r.value, r.reqs, <<op>>)

\* get_device_status: failure absorbed into None
get_device_status(self, device_id, resp) ==
    LET op == ClientOp("get_device_status", device_id, <<>>)
        r == MakeRequest(self, "GET",
                         Endpoint(<<"devices", PyStr(device_id), "status">>),
                         PyNone, resp)
    IN IF r.raised
       THEN Return(PyNone, r.reqs, <<op>>)
       ELSE Return(r.value, r.reqs, <<op>>)

\* send_device_command with the failure absorbed into None, as the read
\* operations do.
send_device_command_absorbs(self, device_id, commands, resp) ==
    LET op == ClientOp("send_device_command", device_id, commands)
        r == MakeRequest(self, "POST",
                         Endpoint(<<"devices", PyStr(device_id), "commands">>),
                         [commands |-> commands], resp)
    IN IF r.raised
       THEN Return(PyNone, r.reqs, <<op>>)
       ELSE Return(r.value, r.reqs, <<op>>)

\* send_device_command: failure logged and re-raised
send_device_command(self, device_id, commands, resp) ==
    LET op == ClientOp("send_device_command", device_id, commands)
        r == MakeRequest(self, "POST",
                         Endpoint(<<"devices", PyStr(device_id), "commands">>),
                         [commands |-> commands], resp)
    IN IF r.raised
       THEN Raise(r.exc, r.reqs, <<op>>)
       ELSE Return(r.value, r.reqs, <<op>>)

TvCapabilities == {"switch", "audioVolume", "mediaInputSource", "tvChannel"}

\* [cap.get("id", "") for cap in capabilities]
CapabilityNames(capabilities) ==
    [i \in 1..Len(capabilities) |-> DictGet(capabilities[i], "id", "")]

\* The body of the loop of get_tv_devices for one device: the outcome is
\* whether the device is kept, or the IndexError of components[0] on an
\* empty components list.
ClassifyDevice(device) ==
    LET components == DictGet(device, "components", <<[k \in {} |-> ""]>>)
    IN IF Len(components) = 0
       THEN Raise("list index out of range", <<>>, <<>>)
       ELSE LET capabilities == DictGet(components[1], "capabilities", <<>>)
                capability_names == CapabilityNames(capabilities)
            IN Return(\E cap \in TvCapabilities :
                          \E i \in 1..Len(capability_names) :
                              capability_names[i] = cap,
                      <<>>, <<>>)

\* The for loop of get_tv_devices over `devices`, in order; the first
\* exception ends it.
RECURSIVE FilterTv(_, _)
FilterTv(devices, tv_devices) ==
    IF devices = <<>>
    THEN Return(tv_devices, <<>>, <<>>)
    ELSE LET c == ClassifyDevice(Head(devices))
         IN IF c.raised
            THEN c
            ELSE FilterTv(Tail(devices),
                          IF c.value THEN Append(tv_devices, Head(devices))
                          ELSE tv_devices)

get_tv_devices(self, resp) ==
    LET d == get_devices(self, resp)
        op == ClientOp("get_tv_devices", JNull, <<>>)
    IN IF d.raised
       THEN Raise(d.exc, d.reqs, <<op>> \o d.ops)
       ELSE LET f == FilterTv(d.value, <<>>)
            IN IF f.raised
               THEN Raise(f.exc, d.reqs, <<op>> \o d.ops)
               ELSE Return(f.value, d.reqs, <<op>> \o d.ops)

---------------------------------------------------------------------------
\* SmartThingsMCPServer: the tool catalog (handle_list_tools)

VolumeMinimum == 0
VolumeMaximum == 100

Tool(name, required) == [name |-> name, required |-> required]

ToolCatalog ==
    << Tool("list_devices", <<>>),
       Tool("list_tv_devices", <<>>),
       Tool("get_device_info", <<"device_id">>),
       Tool("get_device_status", <<"device_id">>),
       Tool("turn_tv_on_off", <<"device_id", "action">>),
       Tool("change_tv_volume", <<"device_id", "volume">>),
       Tool("mute_tv", <<"device_id", "mute">>),
       Tool("change_tv_channel", <<"device_id", "channel">>),
       Tool("change_tv_input", <<"device_id", "input_source">>) >>

ToolNames == {ToolCatalog[i].name : i \in 1..Len(ToolCatalog)}

\* The inputSchema of change_tv_volume: "minimum": 0, "maximum": 100.  The
\* schema is data returned by handle_list_tools; handle_call_tool never
\* reads it.
VolumeInSchema(v) == v.t = "int" /\ VolumeMinimum <= v.n /\ v.n <= VolumeMaximum

---------------------------------------------------------------------------
\* SmartThingsMCPServer: handle_call_tool

\* Text is a sequence of fragments: literal / interpolated strings and
\* json.dumps(value, indent=2) renderings.
Lit(s) == [lit |-> s]
JsonDumps(v) == [json |-> v, indent |-> 2]
TextContent(text) == [type |-> "text", text |-> text]

NotInitializedText ==
    <<Lit("SmartThings client not initialized. Please check your access token.")>>
ErrorText(name, msg) == <<Lit("Error executing "), Lit(name), Lit(": "), Lit(msg)>>
UnknownToolText(name) == <<Lit("Unknown tool: "), Lit(name)>>
DeviceNotFoundText(device_id) ==
    <<Lit("Device "), Lit(PyStr(device_id)), Lit(" not found")>>
StatusNotFoundText(device_id) ==
    <<Lit("Could not get status for device "), Lit(PyStr(device_id))>>

\* What a Client operation handed back to the handler.
ClientRet(r) == [raised |-> r.raised, exc |-> r.exc, value |-> r.value]

\* return [TextContent(type="text", text=...)] after the Client call r
Respond(text, r) ==
    [raised |-> FALSE, exc |-> "", value |-> <<TextContent(text)>>,
     reqs |-> r.reqs, ops |-> r.ops, cret |-> ClientRet(r)]
\* an exception raised by the Client call r leaves the branch
Propagate(r) ==
    [raised |-> TRUE, exc |-> r.exc, value |-> <<>>,
     reqs |-> r.reqs, ops |-> r.ops, cret |-> ClientRet(r)]
\* return [TextContent(...)] without any Client call
RespondLocal(text) ==
    [raised |-> FALSE, exc |-> "", value |-> <<TextContent(text)>>,
     reqs |-> <<>>, ops |-> <<>>, cret |-> PyNone]
\* arguments[key] on a mapping without key: KeyError, str(e) is repr(key)
KeyError(key) ==
    [raised |-> TRUE, exc |-> "'" \o key \o "'", value |-> <<>>,
     reqs |-> <<>>, ops |-> <<>>, cret |-> PyNone]

ListDevicesTool(self, resp) ==
    LET devices == get_devices(self, resp)
    IN IF devices.raised THEN Propagate(devices)
       ELSE Respond(<<JsonDumps(devices.value)>>, devices)

ListTvDevicesTool(self, resp) ==
    LET tv_devices == get_tv_devices(self, resp)
    IN IF tv_devices.raised THEN Propagate(tv_devices)
       ELSE Respond(<<JsonDumps(tv_devices.value)>>, tv_devices)

GetDeviceInfoTool(self, arguments, resp) ==
    IF "device_id" \notin DOMAIN arguments THEN KeyError("device_id")
    ELSE LET device_id == arguments["device_id"]
             device_info == get_device(self, device_id, resp)
         IN IF device_info.raised THEN Propagate(device_info)
            ELSE IF PyTruthyDict(device_info.value)
            THEN Respond(<<JsonDumps(device_info.value)>>, device_info)
            ELSE Respond(DeviceNotFoundText(device_id), device_info)

GetDeviceStatusTool(self, arguments, resp) ==
    IF "device_id" \notin DOMAIN arguments THEN KeyError("device_id")
    ELSE LET device_id == arguments["device_id"]
             status == get_device_status(self, device_id, resp)
         IN IF status.raised THEN Propagate(status)
            ELSE IF PyTruthyDict(status.value)
            THEN Respond(<<JsonDumps(status.value)>>, status)
            ELSE Respond(StatusNotFoundText(device_id), status)

\* The tail shared by the five command branches: send the batch, then
\* render the confirmation with the raw result.
SendAndConfirm(self, device_id, commands, confirmation, resp) ==
    LET result == send_device_command(self, device_id, commands, resp)
    IN IF result.raised THEN Propagate(result)
       ELSE Respond(confirmation \o <<Lit(". Result: "), JsonDumps(result.value)>>,
                    result)

TurnTvOnOffTool(self, arguments, resp) ==
    IF "device_id" \notin DOMAIN arguments THEN KeyError("device_id")
    ELSE IF "action" \notin DOMAIN arguments THEN KeyError("action")
    ELSE LET device_id == arguments["device_id"]
             action == arguments["action"]
             commands == <<[component |-> "main",
                            capability |-> "switch",
                            command |-> action]>>
         IN SendAndConfirm(self, device_id, commands,
                           <<Lit("TV turned "), Lit(PyStr(action))>>, resp)

ChangeTvVolumeTool(self, arguments, resp) ==
    IF "device_id" \notin DOMAIN arguments THEN KeyError("device_id")
    ELSE IF "volume" \notin DOMAIN arguments THEN KeyError("volume")
    ELSE LET device_id == arguments["device_id"]
             volume == arguments["volume"]
             commands == <<[component |-> "main",
                            capability |-> "audioVolume",
                            command |-> JStr("setVolume"),
                            arguments |-> <<volume>>]>>
         IN SendAndConfirm(self, device_id, commands,
                           <<Lit("Volume set to "), Lit(PyStr(volume))>>, resp)

\* mute_tv with the two verbs exchanged.
MuteTvToolInverted(self, arguments, resp) ==
    IF "device_id" \notin DOMAIN arguments THEN KeyError("device_id")
    ELSE IF "mute" \notin DOMAIN arguments THEN KeyError("mute")
    ELSE LET device_id == arguments["device_id"]
             mute == arguments["mute"]
             commands == <<[component |-> "main",
                            capability |-> "audioVolume",
                            command |-> IF PyTruthy(mute) THEN JStr("unmute")
                                        ELSE JStr("mute")]>>
         IN SendAndConfirm(self, device_id, commands,
                           <<Lit("TV "),
                             Lit(IF PyTruthy(mute) THEN "muted" ELSE "unmuted")>>,
                           resp)

MuteTvTool(self, arguments, resp) ==
    IF "device_id" \notin DOMAIN arguments THEN KeyError("device_id")
    ELSE IF "mute" \notin DOMAIN arguments THEN KeyError("mute")
    ELSE LET device_id == arguments["device_id"]
             mute == arguments["mute"]
             commands == <<[component |-> "main",
                            capability |-> "audioVolume",
                            command |-> IF PyTruthy(mute) THEN JStr("mute")
                                        ELSE JStr("unmute")]>>
         IN SendAndConfirm(self, device_id, commands,
                           <<Lit("TV "),
                             Lit(IF PyTruthy(mute) THEN "muted" ELSE "unmuted")>>,
                           resp)

ChangeTvChannelTool(self, arguments, resp) ==
    IF "device_id" \notin DOMAIN arguments THEN KeyError("device_id")
    ELSE IF "channel" \notin DOMAIN arguments THEN KeyError("channel")
    ELSE LET device_id == arguments["device_id"]
             channel == arguments["channel"]
             commands == <<[component |-> "main",
                            capability |-> "tvChannel",
                            command |-> JStr("setTvChannel"),
                            arguments |-> <<channel>>]>>
         IN SendAndConfirm(self, device_id, commands,
                           <<Lit("Channel changed to "), Lit(PyStr(channel))>>, resp)

ChangeTvInputTool(self, arguments, resp) ==
    IF "device_id" \notin DOMAIN arguments THEN KeyError("device_id")
    ELSE IF "input_source" \notin DOMAIN arguments THEN KeyError("input_source")
    ELSE LET device_id == arguments["device_id"]
             input_source == arguments["input_source"]
             commands == <<[component |-> "main",
                            capability |-> "mediaInputSource",
                            command |-> JStr("setInputSource"),
                            arguments |-> <<input_source>>]>>
         IN SendAndConfirm(self, device_id, commands,
                           <<Lit("Input changed to "), Lit(PyStr(input_source))>>,
                           resp)

\* An unknown name raised as an error instead of being answered.
UnknownToolRaises(name) ==
    [raised |-> TRUE, exc |-> "Unknown tool: " \o name, value |-> <<>>,
     reqs |-> <<>>, ops |-> <<>>, cret |-> PyNone]

\* else: return [TextContent(f"Unknown tool: {name}")]
UnknownTool(name) == RespondLocal(UnknownToolText(name))

\* The if / elif chain inside the try block.
ToolBranch(self, name, arguments, resp) ==
    CASE name = "list_devices" -> ListDevicesTool(self, resp)
      [] name = "list_tv_devices" -> ListTvDevicesTool(self, resp)
      [] name = "get_device_info" -> GetDeviceInfoTool(self, arguments, resp)
      [] name = "get_device_status" -> GetDeviceStatusTool(self, arguments, resp)
      [] name = "turn_tv_on_off" -> TurnTvOnOffTool(self, arguments, resp)
      [] name = "change_tv_volume" -> ChangeTvVolumeTool(self, arguments, resp)
      [] name = "mute_tv" -> MuteTvTool(self, arguments, resp)
      [] name = "change_tv_channel" -> ChangeTvChannelTool(self, arguments, resp)
      [] name = "change_tv_input" -> ChangeTvInputTool(self, arguments, resp)
      [] OTHER -> UnknownTool(name)

\* A handler catching aiohttp.ClientError only: local errors escape.
CatchClientErrorOnly(name, r) ==
    IF r.raised /\ r.cret # PyNone
    THEN [r EXCEPT !.raised = FALSE, !.exc = "",
                   !.value = <<TextContent(ErrorText(name, r.exc))>>]
    ELSE r

\* except Exception as e: return [TextContent(f"Error executing {name}: {e}")]
CatchAll(name, r) ==
    IF r.raised
    THEN [r EXCEPT !.raised = FALSE, !.exc = "",
                   !.value = <<TextContent(ErrorText(name, r.exc))>>]
    ELSE r

\* if not self.client: return [TextContent("... not initialized ...")]
ClientAbsent(client) == client = PyNone

\* handle_call_tool with the client check made after the device_id argument
\* has been extracted.
handle_call_tool_args_first(client, name, arguments, resp) ==
    IF name \in ToolNames \ {"list_devices", "list_tv_devices"}
       /\ "device_id" \notin DOMAIN arguments
    THEN CatchAll(name, KeyError("device_id"))
    ELSE IF ClientAbsent(client)
    THEN RespondLocal(NotInitializedText)
    ELSE CatchAll(name, ToolBranch(client, name, arguments, resp))

handle_call_tool(client, name, arguments, resp) ==
    IF ClientAbsent(client)
    THEN RespondLocal(NotInitializedText)
    ELSE CatchAll(name, ToolBranch(client, name, arguments, resp))

---------------------------------------------------------------------------
\* The environment: the devices the remote API may report, the bodies it may
\* answer with, and the calls a peer may make.

Cap(id) == [id |-> id, version |-> 1]
CapWithoutId == [version |-> 1]
Component(id, capabilities) == [id |-> id, capabilities |-> capabilities]
Device(deviceId, components) ==
    [deviceId |-> deviceId, name |-> "Samsung TV", components |-> components]

DevSwitch == Device("tv-1", <<Component("main", <<Cap("switch")>>)>>)
DevVolume == Device("tv-2", <<Component("main", <<Cap("audioVolume")>>)>>)
DevInput == Device("tv-3", <<Component("main", <<Cap("mediaInputSource")>>)>>)
DevChannel == Device("tv-4", <<Component("main", <<Cap("refresh"), Cap("tvChannel")>>)>>)
DevLamp == Device("lamp", <<Component("main", <<Cap("refresh"), Cap("colorControl")>>)>>)
DevNoCaps == Device("hub", <<Component("main", <<>>)>>)
DevCapsKeyMissing == Device("hub-2", <<[id |-> "main"]>>)
DevCapNoId == Device("hub-3", <<Component("main", <<CapWithoutId>>)>>)
DevSecondaryTv ==
    Device("bar", <<Component("main", <<Cap("refresh")>>),
                    Component("sub", <<Cap("switch"), Cap("audioVolume")>>)>>)
DevNoComponentsKey == [deviceId |-> "bare", name |-> "Bare"]
DevEmptyComponents == Device("void", <<>>)

Devices ==
    {DevSwitch, DevVolume, DevInput, DevChannel, DevLamp, DevNoCaps,
     DevCapsKeyMissing, DevCapNoId, DevSecondaryTv,
     DevNoComponentsKey, DevEmptyComponents}

DeviceLists ==
    {<<>>} \cup {<<d>> : d \in Devices}
    \cup {<<DevLamp, DevChannel>>, <<DevSwitch, DevEmptyComponents>>}

RegisteredIds == {"tv-1"}
StatusBody ==
    [components |-> [main |-> [switch |-> [switch |-> [value |-> "on"]]]]]
CommandResult == [results |-> <<[id |-> "cmd-1", status |-> "ACCEPTED"]>>]

\* The answers the remote side may give to one request: any exchange may
\* fail; a successful one carries a JSON object, possibly an empty one.  A
\* device id that is not registered only ever gets an error status.
ApiResponses(req) ==
    LET path == req.url.path
        last == path[Len(path)]
        id == IF Len(path) >= 2 /\ last \in {"status", "commands"}
              THEN path[Len(path) - 1] ELSE last
    IN Failures \cup
       (CASE last = "devices" ->
                 {OkResponse([items |-> l]) : l \in DeviceLists}
                 \cup {OkResponse(EmptyObject)}
          [] id \notin RegisteredIds -> {}
          [] last = "status" -> {OkResponse(StatusBody), OkResponse(EmptyObject)}
          [] last = "commands" -> {OkResponse(CommandResult), OkResponse(EmptyObject)}
          [] OTHER -> {OkResponse(DevSwitch), OkResponse(EmptyObject)})

\* The process environment: the token variable unset, empty, or set.
Environments ==
    {EmptyObject,
     [SMARTTHINGS_ACCESS_TOKEN |-> ""],
     [SMARTTHINGS_ACCESS_TOKEN |-> "secret-token"]}

\* os.getenv(key)
OsGetenv(env, key) == IF key \in DOMAIN env THEN JStr(env[key]) ELSE JNull

\* Tool names and argument mappings a peer may send.
CallNames == ToolNames \cup {"reboot_tv"}

ArgValues(key) ==
    CASE key = "device_id" -> {JStr("tv-1"), JStr("ghost")}
      [] key = "action" -> {JStr("on"), JStr("off")}
      [] key = "volume" -> {JInt(0), JInt(100), JInt(150), JInt(-1)}
      [] key = "mute" -> {JBool(TRUE), JBool(FALSE)}
      [] key = "channel" -> {JStr("7")}
      [] key = "input_source" -> {JStr("HDMI1")}

\* A mapping with the given keys, device_id bound to d and the other key
\* (if any) to v.
Args(keys, d, v) == [k \in keys |-> IF k = "device_id" THEN d ELSE v]

OtherKeys == {"action", "volume", "mute", "channel", "input_source"}

ArgumentMappings ==
    {EmptyObject}
    \cup {Args({"device_id"}, d, d) : d \in ArgValues("device_id")}
    \cup UNION {{Args({"device_id", k}, JStr("tv-1"), v) : v \in ArgValues(k)} :
                   k \in OtherKeys}
    \cup {Args({"device_id", "action"}, JStr("ghost"), JStr("on")),
          Args({"action"}, JNull, JStr("on")),
          Args({"volume"}, JNull, JInt(150))}

---------------------------------------------------------------------------
\* State

VARIABLES
    pc,         \* where the process is: "constructed" (after __init__),
                \* "probing" (run awaits the test connection), "serving"
                \* (server.run on stdio), "exited" (sys.exit)
    environ,    \* the process environment
    client,     \* SmartThingsMCPServer.client: PyNone or a SmartThingsClient
    exit_code,  \* the status passed to sys.exit, JNull while running
    probe,      \* the test connection made by run
    last,       \* the last request handled and what was returned for it
    nCalls,     \* number of requests handled
    served,     \* number of requests handled by server.run
    http_total, \* number of HTTP requests issued so far
    open_sessions \* number of transport sessions opened and not closed

vars == <<pc, environ, client, exit_code, probe, last, nCalls, served,
          http_total, open_sessions>>

Init ==
    /\ pc = "constructed"
    /\ environ \in Environments
    /\ client = PyNone
    /\ exit_code = JNull
    /\ probe = [state |-> "none"]
    /\ last = [kind |-> "none"]
    /\ nCalls = 0
    /\ served = 0
    /\ http_total = 0
    /\ open_sessions = 0

\* run: the token is missing or empty -> sys.exit(1)
RunTokenMissing ==
    /\ pc = "constructed"
    /\ ~PyTruthy(OsGetenv(environ, "SMARTTHINGS_ACCESS_TOKEN"))
    /\ pc' = "exited"
    /\ exit_code' = JInt(1)
    /\ UNCHANGED <<environ, client, probe, last, nCalls, served,
                   http_total, open_sessions>>

\* run: the client is constructed and the test connection is awaited
RunCreateClient ==
    /\ pc = "constructed"
    /\ PyTruthy(OsGetenv(environ, "SMARTTHINGS_ACCESS_TOKEN"))
    /\ client' = SmartThingsClient(
                     PyStr(OsGetenv(environ, "SMARTTHINGS_ACCESS_TOKEN")))
    /\ pc' = "probing"
    /\ UNCHANGED <<environ, exit_code, probe, last, nCalls, served,
                   http_total, open_sessions>>

\* What run does with the outcome r of the test connection: an exception
\* exits with status 1, anything else goes on to server.run.
AfterProbe(r) == IF r.raised THEN "exited" ELSE "serving"

\* run: the test connection completes
RunProbe ==
    /\ pc = "probing"
    /\ \E resp \in ApiResponses(get_devices(client, HttpError).reqs[1]) :
          LET r == get_devices(client, resp)
          IN /\ probe' = [state |-> "done", resp_kind |-> resp.kind,
                          raised |-> r.raised, reqs |-> r.reqs]
             /\ pc' = AfterProbe(r)
             /\ exit_code' = IF AfterProbe(r) = "exited" THEN JInt(1) ELSE exit_code
             /\ http_total' = http_total + Len(r.reqs)
             /\ open_sessions' = open_sessions + LeftOpen(r.reqs)
    /\ UNCHANGED <<environ, client, last, nCalls, served>>

\* The handlers exist from __init__ on (_setup_handlers); server.run
\* dispatches to them while serving.
HandlersCallable == pc \in {"constructed", "serving"}

\* The answers that can come back for a call: those to the request the call
\* issues, or none when it issues no request.
NoResponse == [kind |-> "none", body |-> EmptyObject]
ResponsesTo(name, arguments) ==
    LET sent == handle_call_tool(client, name, arguments, HttpError).reqs
    IN IF sent = <<>> THEN {NoResponse} ELSE ApiResponses(sent[1])

\* One tool call, handled to completion.
CallTool ==
    /\ HandlersCallable
    /\ nCalls < MaxCalls
    /\ \E name \in CallNames, arguments \in ArgumentMappings :
          \E resp \in ResponsesTo(name, arguments) :
             last' = [kind |-> "call",
                      name |-> name,
                      arguments |-> arguments,
                      client |-> client,
                      resp |-> resp,
                      via_server |-> (pc = "serving"),
                      out |-> handle_call_tool(client, name, arguments, resp)]
    /\ http_total' = http_total + Len(last'.out.reqs)
    /\ open_sessions' = open_sessions + LeftOpen(last'.out.reqs)
    /\ nCalls' = nCalls + 1
    /\ served' = IF pc = "serving" THEN served + 1 ELSE served
    /\ UNCHANGED <<pc, environ, client, exit_code, probe>>

\* One tool listing.
ListTools ==
    /\ HandlersCallable
    /\ nCalls < MaxCalls
    /\ last' = [kind |-> "list", tools |-> ToolCatalog,
                via_server |-> (pc = "serving")]
    /\ nCalls' = nCalls + 1
    /\ served' = IF pc = "serving" THEN served + 1 ELSE served
    /\ UNCHANGED <<pc, environ, client, exit_code, probe,
                   http_total, open_sessions>>

Next ==
    \/ RunTokenMissing
    \/ RunCreateClient
    \/ RunProbe
    \/ CallTool
    \/ ListTools

Spec == Init /\ [][Next]_vars

---------------------------------------------------------------------------
\* Properties

Called == last.kind = "call"
\* the call was handled with the client present (ready) / absent
ReadyCall == Called /\ last.client # PyNone
UninitializedCall == Called /\ last.client = PyNone

CommandTools ==
    {"turn_tv_on_off", "change_tv_volume", "mute_tv", "change_tv_channel",
     "change_tv_input"}

Failed(resp) == resp.kind \in {"http_error", "transport_error"}
Posted(out) == \E i \in 1..Len(out.reqs) : out.reqs[i].method = "POST"

OneTextItem(out) ==
    /\ ~out.raised
    /\ Len(out.value) = 1
    /\ out.value[1].type = "text"
TextOf(out) == out.value[1].text

\* the text has the form 'Error executing <tool>: <message>'
IsErrorExecuting(text, name) ==
    /\ Len(text) = 4
    /\ SubSeq(text, 1, 3) = <<[lit |-> "Error executing "], [lit |-> name], [lit |-> ": "]>>

\* the text opens with one of the confirmation phrases of the command tools
IsConfirmation(text) ==
    /\ Len(text) >= 1
    /\ text[1] \in {[lit |-> "TV turned "], [lit |-> "Volume set to "], [lit |-> "TV "],
                   [lit |-> "Channel changed to "], [lit |-> "Input changed to "]}

\* The capability identifiers of the first component of d (none when d has
\* no first component or that component lists no capabilities).
FirstComponentCapabilityIds(d) ==
    IF "components" \in DOMAIN d /\ Len(d.components) >= 1
       /\ "capabilities" \in DOMAIN d.components[1]
    THEN {d.components[1].capabilities[i].id :
              i \in {j \in 1..Len(d.components[1].capabilities) :
                        "id" \in DOMAIN d.components[1].capabilities[j]}}
    ELSE {}

\* a list_tv_devices call in which the device query returned exactly one device
ClassifiedOne ==
    /\ ReadyCall
    /\ last.name = "list_tv_devices"
    /\ last.resp.kind = "ok"
    /\ "items" \in DOMAIN last.resp.body
    /\ Len(last.resp.body.items) = 1

\* C1: for every device d returned by the device query, whatever its
\* component list looks like, classifying [d] completes (raises nothing) and
\* yields [d] if the capability identifiers of d's first component intersect
\* {switch, audioVolume, mediaInputSource, tvChannel}, and the empty sequence
\* otherwise.
C1_ClassifyIsTotalFilter ==
    ClassifiedOne =>
        LET d == last.resp.body.items[1]
            r == last.out.cret
        IN /\ ~r.raised
           /\ r.value = IF FirstComponentCapabilityIds(d) \cap
                               {"switch", "audioVolume", "mediaInputSource", "tvChannel"} # {}
                        THEN <<d>> ELSE <<>>

\* C2: in the ready state, for each command tool, a failed POST makes
\* send_device_command raise and the call return exactly one text item
\* beginning 'Error executing <tool>:'; a confirmation text is returned only
\* when a POST was made and succeeded.
C2_FailedWriteNeverReportedAsSuccess ==
    (ReadyCall /\ last.name \in CommandTools) =>
        /\ OneTextItem(last.out)
        /\ (Posted(last.out) /\ Failed(last.resp)) =>
               /\ last.out.cret.raised
               /\ IsErrorExecuting(TextOf(last.out), last.name)
        /\ IsConfirmation(TextOf(last.out)) =>
               (Posted(last.out) /\ last.resp.kind = "ok")

C2_Witness ==
    /\ ReadyCall
    /\ last.name = "change_tv_channel"
    /\ Posted(last.out)
    /\ last.resp = HttpError
    /\ IsErrorExecuting(TextOf(last.out), "change_tv_channel")

\* C3: in the ready state, when the GET on the devices collection fails,
\* get_devices returns the empty sequence without raising, and list_devices
\* and list_tv_devices each return exactly one text item rendering the empty
\* list: the result of the same call when the API succeeds with zero devices.
C3_FailedReadIsAbsorbed ==
    (ReadyCall /\ last.name \in {"list_devices", "list_tv_devices"}
        /\ Failed(last.resp)) =>
        /\ Len(last.out.reqs) = 1
        /\ last.out.reqs[1].method = "GET"
        /\ ~last.out.cret.raised
        /\ last.out.cret.value = <<>>
        /\ OneTextItem(last.out)
        /\ TextOf(last.out) = <<[json |-> <<>>, indent |-> 2]>>
        /\ last.out.value =
               handle_call_tool(last.client, last.name, last.arguments,
                                OkResponse([items |-> <<>>])).value

C3_Witness ==
    /\ ReadyCall
    /\ last.name = "list_tv_devices"
    /\ last.resp = TransportError
    /\ TextOf(last.out) = <<[json |-> <<>>, indent |-> 2]>>

\* The one command each command tool is to send, by the catalog table.
ExpectedCommand(name, arguments) ==
    CASE name = "turn_tv_on_off" ->
             [component |-> "main", capability |-> "switch",
              command |-> arguments["action"]]
      [] name = "change_tv_volume" ->
             [component |-> "main", capability |-> "audioVolume",
              command |-> JStr("setVolume"), arguments |-> <<arguments["volume"]>>]
      [] name = "mute_tv" ->
             [component |-> "main", capability |-> "audioVolume",
              command |-> IF arguments["mute"] = JBool(TRUE) THEN JStr("mute")
                          ELSE JStr("unmute")]
      [] name = "change_tv_channel" ->
             [component |-> "main", capability |-> "tvChannel",
              command |-> JStr("setTvChannel"), arguments |-> <<arguments["channel"]>>]
      [] name = "change_tv_input" ->
             [component |-> "main", capability |-> "mediaInputSource",
              command |-> JStr("setInputSource"),
              arguments |-> <<arguments["input_source"]>>]

RequiredArguments(name) ==
    CASE name \in {"get_device_info", "get_device_status"} -> {"device_id"}
      [] name = "turn_tv_on_off" -> {"device_id", "action"}
      [] name = "change_tv_volume" -> {"device_id", "volume"}
      [] name = "mute_tv" -> {"device_id", "mute"}
      [] name = "change_tv_channel" -> {"device_id", "channel"}
      [] name = "change_tv_input" -> {"device_id", "input_source"}
      [] OTHER -> {}

\* C4: in the ready state, each command tool call with its required
\* arguments present invokes send_device_command exactly once (and nothing
\* else), for the given device_id, with a batch of exactly the one command
\* of the catalog table, component "main"; that batch is the body posted.
C4_CommandTranslation ==
    (ReadyCall /\ last.name \in CommandTools
        /\ RequiredArguments(last.name) \subseteq DOMAIN last.arguments) =>
        LET batch == <<ExpectedCommand(last.name, last.arguments)>>
        IN /\ last.out.ops =
                  <<[op |-> "send_device_command",
                     device_id |-> last.arguments["device_id"],
                     commands |-> batch]>>
           /\ Len(last.out.reqs) = 1
           /\ last.out.reqs[1].method = "POST"
           /\ last.out.reqs[1].json = [commands |-> batch]

C4_Witness ==
    /\ ReadyCall
    /\ last.name = "mute_tv"
    /\ "mute" \in DOMAIN last.arguments
    /\ last.arguments["mute"] = JBool(FALSE)
    /\ Len(last.out.ops) = 1
    /\ last.out.ops[1].commands =
           <<[component |-> "main", capability |-> "audioVolume",
              command |-> JStr("unmute")]>>

\* a setVolume command whose argument lies outside [0, 100]
OutOfRangeSetVolume(cmd) ==
    /\ cmd.command = JStr("setVolume")
    /\ "arguments" \in DOMAIN cmd
    /\ \E i \in 1..Len(cmd.arguments) :
          ~(cmd.arguments[i].t = "int" /\ 0 <= cmd.arguments[i].n
            /\ cmd.arguments[i].n <= 100)

\* C5: no setVolume command carrying a volume outside [0, 100] is ever
\* passed to send_device_command or posted to the API.
C5_OutOfRangeVolumeNeverSent ==
    Called =>
        /\ \A i \in 1..Len(last.out.ops) :
              \A j \in 1..Len(last.out.ops[i].commands) :
                  ~OutOfRangeSetVolume(last.out.ops[i].commands[j])
        /\ \A i \in 1..Len(last.out.reqs) :
              last.out.reqs[i].method = "POST" =>
                  \A j \in 1..Len(last.out.reqs[i].json.commands) :
                      ~OutOfRangeSetVolume(last.out.reqs[i].json.commands[j])

\* C6: while the client is absent, a call to any tool name, with any
\* arguments, returns exactly one text item with the fixed message and
\* performs no Client operation and no HTTP request; the check comes before
\* tool-name lookup and argument extraction.
C6_UninitializedShortCircuit ==
    UninitializedCall =>
        /\ OneTextItem(last.out)
        /\ TextOf(last.out) =
               <<[lit |-> "SmartThings client not initialized. Please check your access token."]>>
        /\ last.out.ops = <<>>
        /\ last.out.reqs = <<>>

C6_Witness ==
    /\ UninitializedCall
    /\ last.name = "change_tv_volume"
    /\ last.arguments = EmptyObject
    /\ TextOf(last.out) = NotInitializedText

\* C7: in the ready state, get_device_info and get_device_status with
\* device_id present never raise and return exactly one text item: the
\* not-found message when the Client operation returned absent (None), and
\* the indented-JSON rendering of the fetched value whenever the Client
\* returned a value.
C7_QueryRendering ==
    (ReadyCall /\ last.name \in {"get_device_info", "get_device_status"}
        /\ "device_id" \in DOMAIN last.arguments) =>
        /\ OneTextItem(last.out)
        /\ ~last.out.cret.raised
        /\ TextOf(last.out) =
               IF last.out.cret.value = PyNone
               THEN IF last.name = "get_device_info"
                    THEN <<[lit |-> "Device "],
                           [lit |-> PyStr(last.arguments["device_id"])],
                           [lit |-> " not found"]>>
                    ELSE <<[lit |-> "Could not get status for device "],
                           [lit |-> PyStr(last.arguments["device_id"])]>>
               ELSE <<[json |-> last.out.cret.value, indent |-> 2]>>

\* a required argument of the called tool is missing from the mapping
MissingRequired == ~(RequiredArguments(last.name) \subseteq DOMAIN last.arguments)

\* C8: in the ready state, for every tool name and every argument mapping,
\* the call returns exactly one text item and raises nothing; when the
\* invoked Client operation raised, or a required key is missing, the item
\* has the form 'Error executing <tool>: <message>', and for a missing
\* required key no Client operation is invoked and no HTTP request is sent.
C8_NoExceptionCrossesBoundary ==
    ReadyCall =>
        /\ OneTextItem(last.out)
        /\ (last.out.cret # PyNone /\ last.out.cret.raised) =>
               /\ IsErrorExecuting(TextOf(last.out), last.name)
               /\ TextOf(last.out)[4] = [lit |-> last.out.cret.exc]
        /\ MissingRequired =>
               /\ IsErrorExecuting(TextOf(last.out), last.name)
               /\ last.out.ops = <<>>
               /\ last.out.reqs = <<>>

C8_Witness ==
    /\ ReadyCall
    /\ last.name = "change_tv_volume"
    /\ DOMAIN last.arguments = {"device_id"}
    /\ TextOf(last.out) =
           <<[lit |-> "Error executing "], [lit |-> "change_tv_volume"],
             [lit |-> ": "], [lit |-> "'volume'"]>>

\* C9: in the ready state, a call whose name is not one of the 9 catalog
\* names returns exactly one text item 'Unknown tool: <name>', raises
\* nothing, invokes no Client operation and sends no HTTP request.
C9_UnknownToolName ==
    (ReadyCall /\ last.name \notin ToolNames) =>
        /\ OneTextItem(last.out)
        /\ TextOf(last.out) = <<[lit |-> "Unknown tool: "], [lit |-> last.name]>>
        /\ last.out.ops = <<>>
        /\ last.out.reqs = <<>>

C9_Witness ==
    /\ ReadyCall
    /\ last.name = "reboot_tv"
    /\ "device_id" \in DOMAIN last.arguments
    /\ TextOf(last.out) = UnknownToolText("reboot_tv")

TokenMissing == ~PyTruthy(OsGetenv(environ, "SMARTTHINGS_ACCESS_TOKEN"))
ProbeFailed == probe.state = "done" /\ probe.resp_kind \in {"http_error", "transport_error"}
ExitedNonZero == pc = "exited" /\ exit_code.t = "int" /\ exit_code.n # 0

\* C10: if the access token is missing, or the initial probing get_devices
\* call fails, run terminates the process with a non-zero exit before the
\* server serves any request; with a missing token no HTTP request is issued.
C10_StartupFailureIsFatal ==
    /\ TokenMissing =>
           /\ pc \in {"constructed", "exited"}
           /\ pc = "exited" => ExitedNonZero
           /\ probe.state = "none"
           /\ served = 0
    /\ ProbeFailed =>
           /\ ExitedNonZero
           /\ served = 0

ProbeSucceeded(p) == p.state = "done" /\ p.resp_kind = "ok"

\* C11: the Dispatcher starts uninitialized (client absent); it becomes
\* ready (client present) only at startup and only once the Client has
\* successfully completed one probing get_devices call; once ready it never
\* returns to uninitialized (so the transition happens at most once).
C11_DispatcherLifecycle ==
    /\ client = PyNone
    /\ [][/\ (client = PyNone /\ client' # PyNone) =>
                 (pc \in {"constructed", "probing"} /\ ProbeSucceeded(probe'))
          /\ (client # PyNone) => (client' = client)]_vars

\* The endpoint of a Client operation, after the base URL.
OperationEndpoint(op) ==
    CASE op.op = "get_devices" -> <<"devices">>
      [] op.op = "get_device" -> <<"devices", PyStr(op.device_id)>>
      [] op.op = "get_device_status" -> <<"devices", PyStr(op.device_id), "status">>
      [] op.op = "send_device_command" -> <<"devices", PyStr(op.device_id), "commands">>

OperationMethod(op) == IF op.op = "send_device_command" THEN "POST" ELSE "GET"

\* The request req, issued by Client operation op, goes to
\* https://api.smartthings.com/v1 followed by the operation's endpoint, with
\* the operation's method, the bearer token of the environment and the JSON
\* content type; a command request carries the body {"commands": [...]}.
RequestAsSpecified(req, op) ==
    /\ req.method = OperationMethod(op)
    /\ req.url.host = "api.smartthings.com"
    /\ req.url.path = <<"v1">> \o OperationEndpoint(op)
    /\ req.headers = [Authorization |-> <<"Bearer ", environ["SMARTTHINGS_ACCESS_TOKEN"]>>,
                      ContentType |-> "application/json"]
    /\ op.op = "send_device_command" => req.json = [commands |-> op.commands]

\* C12: every HTTP request the Client issues (the startup probe and the
\* request of each tool call) goes to the base URL including its /v1 prefix
\* followed by the operation's endpoint, and carries the Authorization:
\* Bearer <token> and Content-Type: application/json headers.
C12_RequestTargetAndHeaders ==
    /\ probe.state = "done" =>
           \A i \in 1..Len(probe.reqs) :
               RequestAsSpecified(probe.reqs[i],
                                  [op |-> "get_devices", device_id |-> JNull,
                                   commands |-> <<>>])
    /\ Called =>
           \A i \in 1..Len(last.out.reqs) :
               RequestAsSpecified(last.out.reqs[i],
                                  last.out.ops[Len(last.out.ops)])

QueryTools ==
    {"list_devices", "list_tv_devices", "get_device_info", "get_device_status"}

\* The number and kind of HTTP requests a call is to issue: none when the
\* Dispatcher is uninitialized, the name is unknown or a required argument
\* is missing; otherwise exactly one GET for a query tool and exactly one
\* POST for a command tool.
RequestsAsSpecified(call) ==
    LET reqs == call.out.reqs
    IN IF call.client = PyNone
          \/ call.name \notin ToolNames
          \/ ~(RequiredArguments(call.name) \subseteq DOMAIN call.arguments)
       THEN reqs = <<>>
       ELSE /\ Len(reqs) = 1
            /\ call.name \in QueryTools => reqs[1].method = "GET"
            /\ call.name \in CommandTools => reqs[1].method = "POST"

AllSessionsClosed(reqs) == \A i \in 1..Len(reqs) : reqs[i].session.closed

\* What holds of every state for C13.
C13_State ==
    /\ Called =>
           /\ Len(last.out.reqs) <= 1
           /\ RequestsAsSpecified(last)
           /\ AllSessionsClosed(last.out.reqs)
    /\ probe.state = "done" =>
           /\ Len(probe.reqs) = 1
           /\ probe.reqs[1].method = "GET"
           /\ AllSessionsClosed(probe.reqs)
    /\ open_sessions = 0

\* What holds of every step for C13: HTTP requests are issued only by a tool
\* call (as many as that call records) or by the startup probe, which is
\* made once.
C13_Step ==
    /\ http_total' # http_total =>
           \/ /\ nCalls' = nCalls + 1
              /\ last'.kind = "call"
              /\ http_total' = http_total + Len(last'.out.reqs)
              /\ probe' = probe
           \/ /\ probe.state = "none"
              /\ probe'.state = "done"
              /\ http_total' = http_total + 1
              /\ nCalls' = nCalls
    /\ probe.state = "done" => probe' = probe

\* C13: every tool call issues at most one HTTP request, whether it succeeds
\* or fails: exactly one GET for a query tool, exactly one POST for a command
\* tool with its arguments present, none when the Dispatcher is
\* uninitialized, the name is unknown or a required argument is missing; no
\* request occurs outside a tool call or the single startup probe; each
\* request's session is closed when the request completes or fails, so no
\* session stays open between tool calls.
C13_NoRetriesCallerInitiatedOnly == [](C13_State) /\ [][C13_Step]_vars

C13_Witness ==
    /\ ReadyCall
    /\ last.name = "change_tv_input"
    /\ Failed(last.resp)
    /\ Len(last.out.reqs) = 1
    /\ last.out.reqs[1].method = "POST"
    /\ last.out.reqs[1].session.closed
    /\ probe.state = "done"
    /\ http_total = 2
    /\ open_sessions = 0

====
